---------------------------- MODULE Spec2Model ----------------------------
(***************************************************************************)
(* EventHub: an in-process publish/subscribe dispatcher (class EventHub).  *)
(* The registry (events, wildcardListeners), the configuration, and the    *)
(* dispatch algorithm of emit with its two fan-outs, run on JavaScript's   *)
(* single thread: a stack of synchronous activations, and fan-outs         *)
(* suspended on the awaitable a listener returned.                         *)
(***************************************************************************)
EXTENDS Integers, Sequences, FiniteSets, TLC

(* ------------------------------ bounds -------------------------------- *)
\* listener records created over a run of the dispatch specification
MaxRecords == 2
\* listener records created over a run of the registry specification
MaxRegistered == 3
\* emit calls made by callers and handler bodies over a run
MaxEmits == 1
\* error-event dispatches made by handleError over a run
MaxErrorEmits == 1
\* the overlapping-dispatch specification: records, emit calls, error dispatches
OverlapRecords == 1
OverlapEmits == 2
OverlapErrorEmits == 1

\* the error-chain specification: error dispatches (one record, one emit call)
ErrorChainEmits == 3

(* --------------------------- input domains ---------------------------- *)
Wildcard == "*"
ErrorEvent == "error"
EventNames == {"x", ErrorEvent, Wildcard}
Handlers == {"h1", "h2"}
Priorities == {0, 1}
\* values setMaxListeners is called with
Limits == {0, 2}
\* the value a failing handler throws or rejects with
Err == "err"
\* argument lists the caller passes to emit
EmitArgs == {<<"a">>}
DefaultMaxListeners == 10

VARIABLES
    events,             \* Map<string, Listener[]>: a function on its keys
    wildcardListeners,  \* Listener[]
    maxListeners,
    wildcardEnabled,
    asyncEnabled,
    debugMode,
    console,            \* what log() has written (only in debug mode)
    nextId,             \* identity of the next Listener object created
    emits,              \* the emit activations, in the order they started
    stack,              \* the synchronous activations, innermost last
    lastOp              \* observation: the registry call made last, when traced

vars == <<events, wildcardListeners, maxListeners, wildcardEnabled,
          asyncEnabled, debugMode, console, nextId, emits, stack, lastOp>>

config == <<wildcardEnabled, asyncEnabled, debugMode>>
registry == <<events, wildcardListeners>>

(* ---------------------------- observation ---------------------------- *)
\* lastOp of a run that does not trace its registry calls
Untraced == [op |-> "untraced", event |-> "", handler |-> ""]
NoCall == [op |-> "none", event |-> "", handler |-> ""]
Call(op, event, handler) == [op |-> op, event |-> event, handler |-> handler]
Note(call) == lastOp' = IF lastOp = Untraced THEN lastOp ELSE call

(* ------------------------------ helpers ------------------------------- *)
\* Map.prototype.set
MapSet(m, key, val) == (key :> val) @@ m

\* a removal that clears the whole map
MapClear(m, key) == [e \in {} |-> <<>>]

\* Map.prototype.delete
MapDelete(m, key) == [e \in (DOMAIN m) \ {key} |-> m[e]]

RECURSIVE SumLen(_, _)
SumLen(m, keys) ==
    IF keys = {} THEN 0
    ELSE LET e == CHOOSE x \in keys : TRUE
         IN Len(m[e]) + SumLen(m, keys \ {e})

(* ------------------------- introspection ------------------------------ *)
HasEvent(event) ==
    IF event = Wildcard /\ wildcardEnabled
    THEN Len(wildcardListeners) > 0
    ELSE event \in DOMAIN events

ListenerCount(event) ==
    IF event = Wildcard /\ wildcardEnabled
    THEN Len(wildcardListeners)
    ELSE IF event \in DOMAIN events THEN Len(events[event]) ELSE 0

EventNamesOf == DOMAIN events

GetTotalListenerCount ==
    Len(wildcardListeners) + SumLen(events, DOMAIN events)

\* log(): nothing unless debug mode is on
Log(level, about) ==
    IF debugMode THEN console \cup {[level |-> level, about |-> about]}
    ELSE console

(* --------------------------- registration ----------------------------- *)
\* a search that stops at a record of equal priority as well
FindIndexOrEqual(listeners, newListener) ==
    LET hits == {i \in 1..Len(listeners) :
                    listeners[i].priority <= newListener.priority}
    IN IF hits = {} THEN 0
       ELSE CHOOSE i \in hits : \A j \in hits : i <= j

\* findIndex((l) => l.priority < newListener.priority); 0 stands for -1
FindIndex(listeners, newListener) ==
    LET hits == {i \in 1..Len(listeners) :
                    listeners[i].priority < newListener.priority}
    IN IF hits = {} THEN 0
       ELSE CHOOSE i \in hits : \A j \in hits : i <= j

\* a registration that ignores priority: always push
InsertAtEnd(listeners, newListener) == Append(listeners, newListener)

InsertListenerByPriority(listeners, newListener) ==
    LET index == FindIndex(listeners, newListener)
    IN IF index = 0
       THEN Append(listeners, newListener)
       ELSE SubSeq(listeners, 1, index - 1) \o <<newListener>>
            \o SubSeq(listeners, index, Len(listeners))

NewListener(handler, once, priority) ==
    [id |-> nextId, handler |-> handler, once |-> once, priority |-> priority]

\* no wildcard check: nothing is rejected
RejectedNever(event) == FALSE

\* the early return of addListener
Rejected(event) == event = Wildcard /\ ~wildcardEnabled

\* a limit that is enforced: the registration stops at the limit
LimitCheckBlocking(currentCount) ==
    [warn |-> currentCount >= maxListeners, stop |-> currentCount >= maxListeners]

\* the listener-limit check: it warns and never stops
LimitCheck(currentCount) ==
    [warn |-> currentCount >= maxListeners, stop |-> FALSE]

AddListener(event, handler, once, priority, limit) ==
    /\ Rejected(event) \/ nextId <= limit
    /\ IF Rejected(event)
       THEN UNCHANGED <<events, wildcardListeners, console, nextId>>
       ELSE LET check == LimitCheck(GetTotalListenerCount)
                listener == NewListener(handler, once, priority)
            IN /\ console' = IF check.warn
                             THEN Log("warn", "MaxListenersExceededWarning")
                             ELSE console
               /\ IF check.stop
                  THEN UNCHANGED <<events, wildcardListeners, nextId>>
                  ELSE /\ nextId' = nextId + 1
                       /\ IF event = Wildcard
                          THEN /\ wildcardListeners' =
                                    InsertListenerByPriority(wildcardListeners, listener)
                               /\ UNCHANGED events
                          ELSE /\ events' = MapSet(events, event,
                                    InsertListenerByPriority(
                                        IF event \in DOMAIN events
                                        THEN events[event] ELSE <<>>, listener))
                               /\ UNCHANGED wildcardListeners
    /\ UNCHANGED <<maxListeners, config, emits, stack>>

(* ------------------------------ removal ------------------------------- *)
\* a reset that forgets the wildcard list
ClearEventsOnly == <<[e \in {} |-> <<>>], wildcardListeners>>

\* reset(): the registry after events.clear() and wildcardListeners = []
Cleared == <<[e \in {} |-> <<>>], <<>>>>

\* an inverted filter: keeps the records of the handler
KeepMatching(listeners, handler) ==
    SelectSeq(listeners, LAMBDA l : l.handler = handler)

\* listeners.filter((listener) => listener.handler !== handler)
WithoutHandler(listeners, handler) ==
    SelectSeq(listeners, LAMBDA l : l.handler # handler)

Reset ==
    /\ events' = Cleared[1]
    /\ wildcardListeners' = Cleared[2]

\* off(event, handler), handler given
OffHandlerEffect(event, handler) ==
    IF event = Wildcard /\ wildcardEnabled
    THEN /\ wildcardListeners' = WithoutHandler(wildcardListeners, handler)
         /\ UNCHANGED events
    ELSE /\ events' = IF event \in DOMAIN events
                      THEN MapSet(events, event,
                                  WithoutHandler(events[event], handler))
                      ELSE events
         /\ UNCHANGED wildcardListeners

\* off(event), no handler
OffEventEffect(event) ==
    IF event = Wildcard /\ wildcardEnabled
    THEN /\ wildcardListeners' = <<>>
         /\ UNCHANGED events
    ELSE /\ events' = MapDelete(events, event)
         /\ UNCHANGED wildcardListeners


(* ------------------------------ dispatch ------------------------------ *)
\* a fan-out that has nothing to do, or has finished
FanDone == [st |-> "done", snap |-> <<>>, idx |-> 1, called |-> <<>>]

\* a fan-out starting its loop over a copy of the listener array
FanStart(listeners) ==
    [st |-> "loop", snap |-> listeners, idx |-> 1, called |-> <<>>]

Ids(seq) == {seq[i].id : i \in 1..Len(seq)}

\* observation: the records stored for the wildcard and for the event at
\* the moment emit is called
AtStart(event) ==
    [w |-> IF wildcardEnabled THEN Ids(wildcardListeners) ELSE {},
     s |-> IF event \in DOMAIN events THEN Ids(events[event]) ELSE {}]

\* an activation of emit at its first statement; parent is the emit whose
\* failing listener made handleError call it, 0 for a call by the caller
NewEmit(event, args, origin, parent) ==
    [event |-> event, args |-> args, origin |-> origin, parent |-> parent,
     atStart |-> AtStart(event), pc |-> "wild",
     w |-> FanDone, s |-> FanDone, result |-> "none"]

Frame(k, f) == [k |-> k, f |-> f]
Top == stack[Len(stack)]
Pop == SubSeq(stack, 1, Len(stack) - 1)

\* code that may call the hub: a caller with no activation of the hub
\* below it, or the body of the handler now running
CanCall ==
    IF stack = <<>> THEN TRUE
    ELSE Top.f \in {"w", "s"} /\ emits[Top.k][Top.f].st = "inhandler"

Fans == {"w", "s"}

Fan(k, f) == emits[k][f]

\* a wildcard fan-out that does not prepend the event name
SpecificOnlyArgs(f, event, args) == args

\* the arguments a fan-out passes: the wildcard fan-out prepends the name
CallArgs(f, event, args) ==
    IF f = "w" THEN <<event>> \o args ELSE args

(* the public operations *)
On(event, handler, priority, limit) ==
    /\ CanCall
    /\ AddListener(event, handler, FALSE, priority, limit)
    /\ Note(Call("on", event, handler))

Once(event, handler, priority, limit) ==
    /\ CanCall
    /\ AddListener(event, handler, TRUE, priority, limit)
    /\ Note(Call("once", event, handler))

ResetCall ==
    /\ CanCall
    /\ Reset
    /\ Note(Call("reset", "", ""))
    /\ UNCHANGED <<maxListeners, config, console, nextId, emits, stack>>

\* off(): event === undefined
OffAll ==
    /\ CanCall
    /\ Reset
    /\ Note(Call("off", "", ""))
    /\ UNCHANGED <<maxListeners, config, console, nextId, emits, stack>>

OffEvent(event) ==
    /\ CanCall
    /\ OffEventEffect(event)
    /\ Note(Call("off", event, ""))
    /\ UNCHANGED <<maxListeners, config, console, nextId, emits, stack>>

OffHandler(event, handler) ==
    /\ CanCall
    /\ OffHandlerEffect(event, handler)
    /\ Note(Call("off", event, handler))
    /\ UNCHANGED <<maxListeners, config, console, nextId, emits, stack>>

SetMaxListeners(n) ==
    /\ CanCall
    /\ maxListeners' = n
    /\ Note(Call("setMaxListeners", "", ""))
    /\ UNCHANGED <<registry, config, console, nextId, emits, stack>>

\* emit(event, ...args) is entered
Emit(event, args, limit) ==
    /\ CanCall
    /\ Cardinality({k \in DOMAIN emits : emits[k].origin = "caller"}) < limit
    /\ emits' = Append(emits, NewEmit(event, args, "caller", 0))
    /\ stack' = Append(stack, Frame(Len(emits) + 1, "emit"))
    /\ UNCHANGED lastOp
    /\ UNCHANGED <<registry, maxListeners, config, console, nextId>>

\* lines 158-160: the wildcard fan-out is started
EmitWildcard ==
    /\ stack # <<>>
    /\ Top.f = "emit"
    /\ emits[Top.k].pc = "wild"
    /\ LET k == Top.k
           go == wildcardEnabled /\ Len(wildcardListeners) # 0
       IN /\ emits' = [emits EXCEPT ![k].pc = "spec",
                          ![k].w = IF go THEN FanStart(wildcardListeners)
                                   ELSE FanDone]
          /\ stack' = IF go THEN Append(stack, Frame(k, "w")) ELSE stack
    /\ UNCHANGED <<lastOp, registry, maxListeners, config, console, nextId>>

\* line 163: the specific fan-out is started
EmitSpecific ==
    /\ stack # <<>>
    /\ Top.f = "emit"
    /\ emits[Top.k].pc = "spec"
    /\ LET k == Top.k
           event == emits[k].event
           go == event \in DOMAIN events
       IN /\ emits' = [emits EXCEPT ![k].pc = "await",
                          ![k].s = IF go THEN FanStart(events[event])
                                   ELSE FanDone]
          /\ stack' = IF go THEN Append(stack, Frame(k, "s")) ELSE stack
    /\ UNCHANGED <<lastOp, registry, maxListeners, config, console, nextId>>

\* lines 166-171: emit awaits its two fan-outs and returns its promise
EmitAwait ==
    /\ stack # <<>>
    /\ Top.f = "emit"
    /\ emits[Top.k].pc = "await"
    /\ emits' = [emits EXCEPT ![Top.k].pc = "pending"]
    /\ stack' = Pop
    /\ UNCHANGED <<lastOp, registry, maxListeners, config, console, nextId>>

\* what the awaited fan-out promises settle emit's promise to
EmitOutcome(w, s) ==
    IF w.st = "rejected" \/ s.st = "rejected" THEN "rejected" ELSE "true"

\* an emit that waits for its wildcard fan-out only
AwaitedWildcardOnly(w, s) == w.st \in {"done", "rejected"}

\* lines 166-171: both fan-out promises have settled
Awaited(w, s) ==
    /\ w.st \in {"done", "rejected"}
    /\ s.st \in {"done", "rejected"}

\* line 172: emit continues after its await
EmitResolve(k) ==
    /\ stack = <<>>
    /\ emits[k].pc = "pending"
    /\ Awaited(emits[k].w, emits[k].s)
    /\ emits' = [emits EXCEPT ![k].pc = "settled",
                    ![k].result = EmitOutcome(emits[k].w, emits[k].s)]
    /\ UNCHANGED <<lastOp, registry, maxListeners, config, console, nextId, stack>>

\* the for-of loop of a fan-out calls the next listener's handler
Invoke ==
    /\ stack # <<>>
    /\ Top.f \in Fans
    /\ LET k == Top.k
           f == Top.f
           fan == Fan(k, f)
       IN /\ fan.st = "loop"
          /\ fan.idx <= Len(fan.snap)
          /\ emits' = [emits EXCEPT ![k][f].st = "inhandler",
                ![k][f].called = Append(fan.called,
                    [l |-> fan.snap[fan.idx],
                     args |-> CallArgs(f, emits[k].event, emits[k].args),
                     out |-> "running"])]
    /\ UNCHANGED <<lastOp, registry, maxListeners, config, console, nextId, stack>>

\* the for-of loop of a fan-out is exhausted: its promise resolves
FanEnd ==
    /\ stack # <<>>
    /\ Top.f \in Fans
    /\ LET fan == Fan(Top.k, Top.f)
       IN /\ fan.st = "loop"
          /\ fan.idx > Len(fan.snap)
          /\ emits' = [emits EXCEPT ![Top.k][Top.f].st = "done"]
    /\ stack' = Pop
    /\ UNCHANGED <<lastOp, registry, maxListeners, config, console, nextId>>

\* the fan-out after listener fan.idx completed without an error
Completed(fan) ==
    [fan EXCEPT !.st = "loop", !.idx = fan.idx + 1,
                !.called[fan.idx].out = "ok"]

\* the fan-out after listener fan.idx returned a Promise that the loop
\* does not wait for: the listener's work is still pending
Unawaited(fan) ==
    [fan EXCEPT !.st = "loop", !.idx = fan.idx + 1,
                !.called[fan.idx].out = "pending"]

\* an error that is not caught ends the loop and rejects the promise
Uncaught(fan) ==
    [fan EXCEPT !.st = "rejected", !.called[fan.idx].out = "fail"]

\* the fan-out after the catch block handled listener fan.idx's error
Caught(fan) ==
    [fan EXCEPT !.st = "loop", !.idx = fan.idx + 1,
                !.called[fan.idx].out = "fail"]

\* lines 285-289 and 321-327: a one-shot listener is removed
PruneOnce(k, f, listener) ==
    IF ~listener.once
    THEN UNCHANGED registry
    ELSE IF f = "w"
         THEN /\ wildcardListeners' =
                    SelectSeq(wildcardListeners, LAMBDA l : l.id # listener.id)
              /\ UNCHANGED events
         ELSE LET event == emits[k].event
                  currentListeners ==
                      IF event \in DOMAIN events THEN events[event] ELSE <<>>
              IN /\ events' = MapSet(events, event,
                        SelectSeq(currentListeners, LAMBDA l : l.id # listener.id))
                 /\ UNCHANGED wildcardListeners

\* whether handleError dispatches the error event
HasErrorListeners == ErrorEvent \in DOMAIN events

\* the try-block after the handler call: the listener completed, or
\* (settled = FALSE) returned a Promise that is not awaited
Succeed(k, f, settled) ==
    LET fan == Fan(k, f)
    IN /\ emits' = [emits EXCEPT ![k][f] =
                       IF settled THEN Completed(fan) ELSE Unawaited(fan)]
       /\ PruneOnce(k, f, fan.snap[fan.idx])
       /\ UNCHANGED console

\* the catch block: handleError(error, event, listener.handler)
Fail(k, f, stk, limit) ==
    LET fan == Fan(k, f)
        after == [emits EXCEPT ![k][f] = Caught(fan)]
    IN /\ UNCHANGED registry
       /\ IF after[k][f].st = "rejected"
          THEN /\ emits' = after
               /\ stack' = SubSeq(stk, 1, Len(stk) - 1)
               /\ UNCHANGED console
          ELSE IF HasErrorListeners
          THEN /\ Cardinality({j \in DOMAIN emits :
                        emits[j].origin = "handleError"}) < limit
               /\ emits' = Append(after,
                     NewEmit(ErrorEvent,
                             <<Err, emits[k].event, fan.snap[fan.idx].handler>>,
                             "handleError", k))
               /\ stack' = Append(stk, Frame(Len(emits) + 1, "emit"))
               /\ UNCHANGED console
          ELSE /\ emits' = after
               /\ stack' = stk
               /\ console' = Log("error", emits[k].event)

InHandler ==
    /\ stack # <<>>
    /\ Top.f \in Fans
    /\ Fan(Top.k, Top.f).st = "inhandler"

\* the handler returns a value that is not a Promise
HandlerReturns ==
    /\ InHandler
    /\ Succeed(Top.k, Top.f, TRUE)
    /\ UNCHANGED <<lastOp, maxListeners, config, nextId, stack>>

\* the handler throws
HandlerThrows(limit) ==
    /\ InHandler
    /\ Fail(Top.k, Top.f, stack, limit)
    /\ UNCHANGED <<lastOp, maxListeners, config, nextId>>

\* a fan-out that never waits for a returned Promise
AwaitsNever == FALSE

\* a fan-out that waits for a returned Promise in either mode
AwaitsAlways == TRUE

\* lines 279 and 316: a returned Promise is awaited in asynchronous mode
Awaits == asyncEnabled

\* the handler returns a Promise
HandlerReturnsPromise ==
    /\ InHandler
    /\ IF Awaits
       THEN /\ emits' = [emits EXCEPT ![Top.k][Top.f].st = "awaiting"]
            /\ stack' = Pop
            /\ UNCHANGED <<registry, console>>
       ELSE /\ Succeed(Top.k, Top.f, FALSE)
            /\ UNCHANGED stack
    /\ UNCHANGED <<lastOp, maxListeners, config, nextId>>

\* the awaited Promise fulfils: the fan-out resumes
PromiseFulfils(k, f) ==
    /\ stack = <<>>
    /\ Fan(k, f).st = "awaiting"
    /\ Succeed(k, f, TRUE)
    /\ stack' = <<Frame(k, f)>>
    /\ UNCHANGED <<lastOp, maxListeners, config, nextId>>

\* the awaited Promise rejects: the await throws into the catch block
PromiseRejects(k, f, limit) ==
    /\ stack = <<>>
    /\ Fan(k, f).st = "awaiting"
    /\ Fail(k, f, <<Frame(k, f)>>, limit)
    /\ UNCHANGED <<lastOp, maxListeners, config, nextId>>

(* --------------------------- specifications --------------------------- *)
\* the state after construction, for given options
Constructed(wildcard, enableAsync, debug, traced) ==
    /\ events = [e \in {} |-> <<>>]
    /\ wildcardListeners = <<>>
    /\ maxListeners = DefaultMaxListeners
    /\ wildcardEnabled = wildcard
    /\ asyncEnabled = enableAsync
    /\ debugMode = debug
    /\ console = {}
    /\ nextId = 1
    /\ emits = <<>>
    /\ stack = <<>>
    /\ lastOp = IF traced THEN NoCall ELSE Untraced

\* Dispatch: every wildcard and async option. Debug mode is on, so that
\* log() is visible; with it off the runs are the same with console empty.
Init ==
    \E wildcard \in BOOLEAN, enableAsync \in BOOLEAN :
        Constructed(wildcard, enableAsync, TRUE, FALSE)

Dispatch(maxRecords, maxEmits, maxErrorEmits) ==
    \/ \E e \in EventNames, h \in Handlers, p \in Priorities :
          On(e, h, p, maxRecords)
    \/ \E e \in EventNames, h \in Handlers, p \in Priorities :
          Once(e, h, p, maxRecords)
    \/ ResetCall
    \/ OffAll
    \/ \E e \in EventNames : OffEvent(e)
    \/ \E e \in EventNames, h \in Handlers : OffHandler(e, h)
    \/ \E e \in EventNames, a \in EmitArgs : Emit(e, a, maxEmits)
    \/ EmitWildcard
    \/ EmitSpecific
    \/ EmitAwait
    \/ \E k \in DOMAIN emits : EmitResolve(k)
    \/ Invoke
    \/ FanEnd
    \/ HandlerReturns
    \/ HandlerThrows(maxErrorEmits)
    \/ HandlerReturnsPromise
    \/ \E k \in DOMAIN emits, f \in Fans : PromiseFulfils(k, f)
    \/ \E k \in DOMAIN emits, f \in Fans : PromiseRejects(k, f, maxErrorEmits)

Next == Dispatch(MaxRecords, MaxEmits, MaxErrorEmits)

Spec == Init /\ [][Next]_vars

\* Overlapping dispatch: several emit calls, fewer listener records
NextOverlap == Dispatch(OverlapRecords, OverlapEmits, OverlapErrorEmits)

SpecOverlap == Init /\ [][NextOverlap]_vars

\* Error routing: one listener record, one emit call by the caller, and
\* several error dispatches by handleError
NextErrorChain == Dispatch(OverlapRecords, MaxEmits, ErrorChainEmits)

SpecErrorChain == Init /\ [][NextErrorChain]_vars

\* Dispatch with wildcard support disabled, the public calls traced
InitNoWildcard ==
    \E enableAsync \in BOOLEAN : Constructed(FALSE, enableAsync, TRUE, TRUE)

NextNoWildcard == Dispatch(OverlapRecords, MaxEmits, MaxErrorEmits)

SpecNoWildcard == InitNoWildcard /\ [][NextNoWildcard]_vars

\* The registry alone, its public calls traced: no dispatch, so the async
\* option is left at its default
InitRegistry ==
    \E wildcard \in BOOLEAN : Constructed(wildcard, TRUE, TRUE, TRUE)

NextRegistry ==
    \/ \E e \in EventNames, h \in Handlers, p \in Priorities :
          On(e, h, p, MaxRegistered)
    \/ \E e \in EventNames, h \in Handlers, p \in Priorities :
          Once(e, h, p, MaxRegistered)
    \/ ResetCall
    \/ OffAll
    \/ \E e \in EventNames : OffEvent(e)
    \/ \E e \in EventNames, h \in Handlers : OffHandler(e, h)
    \/ \E n \in Limits : SetMaxListeners(n)

SpecRegistry == InitRegistry /\ [][NextRegistry]_vars


(* ------------------------------ claims -------------------------------- *)
Calls(k, f) == emits[k][f].called

\* the listener arrays of a registry, as one function of the event name
SeqOf(ev, wl, event) ==
    IF event = Wildcard /\ wildcardEnabled THEN wl
    ELSE IF event \in DOMAIN ev THEN ev[event] ELSE <<>>

RegisteredIds ==
    Ids(wildcardListeners)
        \cup UNION {Ids(events[e]) : e \in DOMAIN events}

\* every call made so far: <<emit, fan-out, position>>
CallSites ==
    UNION {{<<k, f, i>> : i \in 1..Len(Calls(k, f))} :
              k \in DOMAIN emits, f \in Fans}

PositionIn(seq, id) == CHOOSE i \in 1..Len(seq) : seq[i].id = id

(* C1: within one fan-out of one emit (the specific one and the wildcard  *)
(* one alike), a listener of higher priority is invoked before every      *)
(* listener of lower priority, whatever the order of registration.        *)
C1_PriorityOrder ==
    \A k \in DOMAIN emits, f \in Fans :
        \A i, j \in 1..Len(Calls(k, f)) :
            Calls(k, f)[i].l.priority > Calls(k, f)[j].l.priority => i < j

\* two listeners of one event, the higher priority registered later, both
\* invoked by one emit
C1_Witness ==
    \E k \in DOMAIN emits :
        /\ Len(Calls(k, "s")) = 2
        /\ Calls(k, "s")[1].l.priority > Calls(k, "s")[2].l.priority
        /\ Calls(k, "s")[1].l.id > Calls(k, "s")[2].l.id
        /\ Calls(k, "s")[2].out # "running"

(* C2: once an emit has completed, no one-shot listener that it invoked   *)
(* is still registered, whether its handler returned or failed.           *)
C2_OncePrunedAtCompletion ==
    \A k \in DOMAIN emits :
        emits[k].pc = "settled" =>
            \A f \in Fans : \A i \in 1..Len(Calls(k, f)) :
                Calls(k, f)[i].l.once =>
                    Calls(k, f)[i].l.id \notin RegisteredIds

(* C3: a one-shot listener record is invoked at most once over all the    *)
(* emit calls of a run, overlapping ones included.                        *)
C3_OnceInvokedAtMostOnce ==
    \A id \in 1..(nextId - 1) :
        Cardinality({c \in CallSites :
                        /\ Calls(c[1], c[2])[c[3]].l.id = id
                        /\ Calls(c[1], c[2])[c[3]].l.once}) <= 1

(* C4: a failing handler does not end its fan-out: the loop goes on past  *)
(* it, a finished fan-out has invoked its whole snapshot, no fan-out and  *)
(* no emit rejects, and a settled emit has resolved to true.              *)
C4_ErrorIsolation ==
    \A k \in DOMAIN emits :
        /\ emits[k].result # "rejected"
        /\ emits[k].pc = "settled" =>
              /\ emits[k].result = "true"
              /\ emits[k].w.st = "done"
              /\ emits[k].s.st = "done"
        /\ \A f \in Fans :
              /\ emits[k][f].st # "rejected"
              /\ emits[k][f].st = "done" =>
                    Len(Calls(k, f)) = Len(emits[k][f].snap)
              /\ \A i \in 1..Len(Calls(k, f)) :
                    /\ Calls(k, f)[i].l = emits[k][f].snap[i]
                    /\ Calls(k, f)[i].out = "fail" => i < emits[k][f].idx

\* an emit resolved to true in which the first listener failed and the
\* second was invoked all the same
C4_Witness ==
    \E k \in DOMAIN emits, f \in Fans :
        /\ emits[k].pc = "settled"
        /\ emits[k].result = "true"
        /\ Len(Calls(k, f)) >= 2
        /\ Calls(k, f)[1].out = "fail"
        /\ Calls(k, f)[2].out \in {"ok", "fail"}

\* listener fan.idx of fan-out f of emit k fails in this step
FailsAt(k, f) ==
    /\ emits[k][f].st \in {"inhandler", "awaiting"}
    /\ emits'[k][f].called[emits[k][f].idx].out = "fail"

(* C5: when a handler fails during emit(e): with a listener registered    *)
(* for 'error', the error event is dispatched with (error, e, handler);   *)
(* with none registered, nothing is dispatched and the error is logged.   *)
C5_ErrorRouting ==
    [][\A k \in DOMAIN emits, f \in Fans :
          FailsAt(k, f) =>
              IF ListenerCount(ErrorEvent) > 0
              THEN /\ Len(emits') = Len(emits) + 1
                   /\ emits'[Len(emits')].event = ErrorEvent
                   /\ emits'[Len(emits')].args =
                        <<Err, emits[k].event,
                          emits[k][f].snap[emits[k][f].idx].handler>>
              ELSE /\ Len(emits') = Len(emits)
                   /\ console' = console \cup
                        {[level |-> "error", about |-> emits[k].event]}
      ]_vars

\* new is old without exactly the records of the given handler
RemovedExactly(old, new, handler) ==
    /\ Ids(new) = {old[i].id : i \in {j \in 1..Len(old) : old[j].handler # handler}}
    /\ Len(new) = Cardinality(Ids(new))
    /\ \A i \in 1..Len(new) : new[i] = old[PositionIn(old, new[i].id)]
    /\ \A i, j \in 1..Len(new) :
          i < j => PositionIn(old, new[i].id) < PositionIn(old, new[j].id)

(* C6: off(event, handler) removes from the event's sequence exactly the  *)
(* records of that handler, keeps the others in their order, and changes  *)
(* no other sequence and no key of the registry.                          *)
C6_OffByHandler ==
    [][\A e \in EventNames, h \in Handlers :
          lastOp' = Call("off", e, h) =>
              /\ RemovedExactly(SeqOf(events, wildcardListeners, e),
                                SeqOf(events', wildcardListeners', e), h)
              /\ DOMAIN events' = DOMAIN events
              /\ \A e2 \in EventNames \ {e} :
                    SeqOf(events', wildcardListeners', e2)
                        = SeqOf(events, wildcardListeners, e2)
              /\ (e # Wildcard \/ ~wildcardEnabled) =>
                    wildcardListeners' = wildcardListeners
      ]_vars

\* off(x, h) has just left two records of another handler, registered
\* around a removed one, in their order
C6_Witness ==
    /\ lastOp.op = "off"
    /\ lastOp.handler \in Handlers
    /\ lastOp.event \in DOMAIN events
    /\ nextId = 4
    /\ wildcardListeners = <<>>
    /\ DOMAIN events = {lastOp.event}
    /\ Ids(events[lastOp.event]) = {1, 3}
    /\ \A i \in 1..Len(events[lastOp.event]) :
          events[lastOp.event][i].handler # lastOp.handler
    /\ events[lastOp.event][1].priority = events[lastOp.event][2].priority
    /\ events[lastOp.event][1].once # events[lastOp.event][2].once

(* C7: right after off() without arguments, or reset(), eventNames() is   *)
(* empty and listenerCount is 0 for every event name, '*' included.       *)
C7_ResetClears ==
    [][(lastOp' = Call("off", "", "") \/ lastOp' = Call("reset", "", "")) =>
          /\ EventNamesOf' = {}
          /\ \A e \in EventNames : ListenerCount(e)' = 0
          /\ GetTotalListenerCount' = 0
      ]_vars

\* off() or reset() has just emptied a registry that held three records
C7_Witness ==
    /\ lastOp \in {Call("off", "", ""), Call("reset", "", "")}
    /\ nextId > 3
    /\ EventNamesOf = {}
    /\ wildcardEnabled

(* C8: with wildcard support enabled, every wildcard listener of the      *)
(* snapshot is invoked once with (event, args...) and every specific      *)
(* listener of the event once with (args...): the calls made so far are   *)
(* the snapshot's first records in order, and all of them once the        *)
(* fan-out has finished.                                                  *)
C8_ArgsDelivered ==
    wildcardEnabled =>
        \A k \in DOMAIN emits :
            /\ \A i \in 1..Len(Calls(k, "w")) :
                  Calls(k, "w")[i].args = <<emits[k].event>> \o emits[k].args
            /\ \A i \in 1..Len(Calls(k, "s")) :
                  Calls(k, "s")[i].args = emits[k].args
            /\ \A f \in Fans :
                  /\ Len(Calls(k, f)) <= Len(emits[k][f].snap)
                  /\ \A i \in 1..Len(Calls(k, f)) :
                        Calls(k, f)[i].l = emits[k][f].snap[i]
                  /\ emits[k][f].st = "done" =>
                        Len(Calls(k, f)) = Len(emits[k][f].snap)
                  /\ Cardinality(Ids(emits[k][f].snap)) = Len(emits[k][f].snap)

\* a settled emit that invoked a wildcard listener and a specific one
C8_Witness ==
    /\ wildcardEnabled
    /\ \E k \in DOMAIN emits :
          /\ emits[k].pc = "settled"
          /\ Len(Calls(k, "w")) >= 1
          /\ Len(Calls(k, "s")) >= 1

\* on('*', h) or once('*', h)
RegistersWildcard ==
    \E h \in Handlers, p \in Priorities :
        \/ On(Wildcard, h, p, OverlapRecords)
        \/ Once(Wildcard, h, p, OverlapRecords)

(* C9: with wildcard support disabled, on('*', h) and once('*', h) leave  *)
(* the registry as it was, hasEvent('*') is false and listenerCount('*')  *)
(* is 0 in every state, and no emit invokes a wildcard listener.          *)
C9_WildcardDisabled ==
    /\ [](~wildcardEnabled =>
            /\ wildcardListeners = <<>>
            /\ Wildcard \notin EventNamesOf
            /\ ~HasEvent(Wildcard)
            /\ ListenerCount(Wildcard) = 0
            /\ \A k \in DOMAIN emits : Calls(k, "w") = <<>>)
    /\ [][(~wildcardEnabled /\ RegistersWildcard) =>
            UNCHANGED <<events, wildcardListeners, nextId>>]_vars

\* with wildcard support disabled: the last registry call was a
\* registration under '*', the one record there is was registered for
\* another event, and an emit has invoked it and settled
C9_Witness ==
    /\ ~wildcardEnabled
    /\ lastOp.op \in {"on", "once"}
    /\ lastOp.event = Wildcard
    /\ nextId = 2
    /\ \E k \in DOMAIN emits :
          /\ emits[k].pc = "settled"
          /\ Len(Calls(k, "s")) = 1
          /\ Calls(k, "s")[1].l.handler = lastOp.handler

(* C10: the listener limit never blocks a registration: every on or once  *)
(* of an event that is not rejected adds one record, so listenerCount of  *)
(* the event and the total grow by exactly one.                           *)
C10_LimitIsAdvisory ==
    [][\A e \in EventNames :
          (lastOp'.op \in {"on", "once"} /\ lastOp'.event = e /\ ~Rejected(e)) =>
              /\ ListenerCount(e)' = ListenerCount(e) + 1
              /\ GetTotalListenerCount' = GetTotalListenerCount + 1
              /\ nextId' = nextId + 1
      ]_vars

\* a registration has just succeeded with the limit at 0 and two records
\* already stored
C10_Witness ==
    /\ lastOp.op \in {"on", "once"}
    /\ maxListeners = 0
    /\ ListenerCount(lastOp.event) = 3
    /\ console # {}

\* the call of emit number k has not yet returned to its caller
EmitRunning(k) == emits[k].pc \in {"wild", "spec", "await"}

(* C11: in asynchronous mode no handler is invoked before the emit call   *)
(* that dispatches to it has returned to its caller: while the call is    *)
(* still running, neither of its fan-outs has called a listener.          *)
C11_HandlersAfterEmitReturns ==
    asyncEnabled =>
        \A k \in DOMAIN emits :
            EmitRunning(k) => Calls(k, "w") = <<>> /\ Calls(k, "s") = <<>>

\* the ids of the records fan-out f of emit k has called so far
CalledIds(k, f) == {Calls(k, f)[i].l.id : i \in 1..Len(Calls(k, f))}

(* C12: the listeners an emit invokes are those registered when the emit  *)
(* was called: no fan-out calls a record registered after that moment,    *)
(* and once the emit has completed every record registered at that moment *)
(* has been called, removed in the meantime or not.                       *)
C12_SnapshotAtEmitStart ==
    \A k \in DOMAIN emits : \A f \in Fans :
        /\ CalledIds(k, f) \subseteq emits[k].atStart[f]
        /\ emits[k].pc = "settled" => emits[k].atStart[f] \subseteq CalledIds(k, f)

\* every listener array of the registry
ListenerSeqs == {wildcardListeners} \cup {events[e] : e \in DOMAIN events}

\* sorted by non-increasing priority, equal priorities in registration order
SortedStable(seq) ==
    \A i, j \in 1..Len(seq) :
        i < j => \/ seq[i].priority > seq[j].priority
                 \/ /\ seq[i].priority = seq[j].priority
                    /\ seq[i].id < seq[j].id

(* C13: in every reachable state every listener array (each event's and   *)
(* the wildcard one) is sorted by non-increasing priority, and records of *)
(* equal priority stand in the order of their registration.               *)
C13_SortedStable == \A seq \in ListenerSeqs : SortedStable(seq)

\* two records of equal priority in one array, and an emit that invoked
\* them has completed
C13_Witness ==
    \E seq \in ListenerSeqs :
        /\ Len(seq) = 2
        /\ seq[1].priority = seq[2].priority
        /\ \E k \in DOMAIN emits :
              /\ emits[k].pc = "settled"
              /\ \E f \in Fans : CalledIds(k, f) = Ids(seq)

\* call i of a fan-out is in progress: its handler is running, or the
\* Promise it returned has not settled
InProgress(call) == call.out \in {"running", "pending"}

(* C14: in asynchronous mode a fan-out has at most one listener in        *)
(* progress, the one it called last: a listener is called only when the   *)
(* handler of every listener called before it in that fan-out has         *)
(* returned and the Promise it returned has settled.                      *)
C14_OneListenerAtATime ==
    asyncEnabled =>
        \A k \in DOMAIN emits : \A f \in Fans :
            \A i \in 1..Len(Calls(k, f)) :
                InProgress(Calls(k, f)[i]) => i = Len(Calls(k, f))

\* a fan-out of two listeners is suspended on the second one's Promise,
\* the first one having completed
C14_Witness ==
    /\ asyncEnabled
    /\ \E k \in DOMAIN emits : \E f \in Fans :
          /\ emits[k][f].st = "awaiting"
          /\ Len(emits[k][f].snap) = 2
          /\ Len(Calls(k, f)) = 2
          /\ Calls(k, f)[1].out = "ok"
          /\ Calls(k, f)[2].out = "running"

(* C15: with asynchronous mode disabled, by the time an emit calls its    *)
(* first specific listener its wildcard fan-out has finished: every       *)
(* wildcard listener of the snapshot has been called and has returned.    *)
C15_WildcardBeforeSpecific ==
    ~asyncEnabled =>
        \A k \in DOMAIN emits :
            Calls(k, "s") # <<>> =>
                /\ emits[k].w.st = "done"
                /\ Len(Calls(k, "w")) = Len(emits[k].w.snap)
                /\ \A i \in 1..Len(Calls(k, "w")) :
                      Calls(k, "w")[i].out # "running"

\* synchronous mode: a wildcard listener returned a Promise, which was not
\* awaited, and a specific listener of the same emit is being called
C15_Witness ==
    /\ ~asyncEnabled
    /\ \E k \in DOMAIN emits :
          /\ Len(Calls(k, "w")) = 1
          /\ Calls(k, "w")[1].out = "pending"
          /\ Len(Calls(k, "s")) = 1
          /\ Calls(k, "s")[1].out = "running"

(* C16: in asynchronous mode an emit that has resolved has finished both  *)
(* fan-outs: every listener of both snapshots has been called, and no     *)
(* listener of that emit is still running or waiting on its Promise.      *)
C16_ResolvesAfterAllSettled ==
    asyncEnabled =>
        \A k \in DOMAIN emits :
            emits[k].pc = "settled" =>
                \A f \in Fans :
                    /\ emits[k][f].st = "done"
                    /\ Len(Calls(k, f)) = Len(emits[k][f].snap)
                    /\ \A i \in 1..Len(Calls(k, f)) : ~InProgress(Calls(k, f)[i])

\* asynchronous mode: an emit with two specific listeners has resolved
C16_Witness ==
    /\ asyncEnabled
    /\ \E k \in DOMAIN emits :
          /\ emits[k].pc = "settled"
          /\ emits[k].result = "true"
          /\ Len(emits[k].s.snap) = 2
          /\ Len(Calls(k, "s")) = 2

\* the number of error dispatches between emit k and the emit call of the
\* caller whose failing listener set them off
RECURSIVE ChainDepth(_)
ChainDepth(k) ==
    IF emits[k].parent = 0 THEN 0 ELSE 1 + ChainDepth(emits[k].parent)

(* C17: error routing ends: the error dispatches that one failing         *)
(* listener sets off, each started by a failure inside the one before,    *)
(* are fewer than the error dispatches a run may contain, so the emit     *)
(* calls of the chain can all resolve.                                    *)
C17_ErrorDispatchEnds ==
    \A k \in DOMAIN emits : ChainDepth(k) < ErrorChainEmits

(* C18: for every event name other than the wildcard token of a hub with  *)
(* wildcard support, hasEvent(e) and membership of e in eventNames() both *)
(* mean that listenerCount(e) is positive.                                *)
C18_HasEventIffListeners ==
    \A e \in EventNames :
        ~(e = Wildcard /\ wildcardEnabled) =>
            /\ HasEvent(e) <=> ListenerCount(e) > 0
            /\ e \in EventNamesOf <=> ListenerCount(e) > 0

(* C19: a dispatch in flight never undoes a removal: a step that does not *)
(* register a listener (no on or once took effect in it) adds no event    *)
(* name to eventNames(); in particular one-shot pruning after off(e),     *)
(* off() or reset() leaves e absent.                                      *)
C19_RemovalNotUndone ==
    [][nextId' = nextId => EventNamesOf' \subseteq EventNamesOf]_vars

(* C20: off(e) without a handler removes every listener of e: after it    *)
(* listenerCount(e) is 0 and e is not in eventNames() (for '*' on a hub    *)
(* with wildcard support the wildcard list is empty); every other event's *)
(* array, the key set apart from e, and the wildcard list when e is not   *)
(* the wildcard token, are as before.                                     *)
C20_OffEvent ==
    [][\A e \in EventNames :
          lastOp' = Call("off", e, "") =>
              /\ ListenerCount(e)' = 0
              /\ e \notin EventNamesOf'
              /\ (e = Wildcard /\ wildcardEnabled) =>
                    wildcardListeners' = <<>> /\ events' = events
              /\ \A e2 \in EventNames \ {e} :
                    /\ e2 \in DOMAIN events' <=> e2 \in DOMAIN events
                    /\ SeqOf(events', wildcardListeners', e2)
                           = SeqOf(events, wildcardListeners, e2)
              /\ (e # Wildcard \/ ~wildcardEnabled) =>
                    wildcardListeners' = wildcardListeners
      ]_vars

\* off(e) has just removed the first and the third record registered, and
\* the second one, of another event, is still there
C20_Witness ==
    /\ lastOp.op = "off"
    /\ lastOp.handler = ""
    /\ lastOp.event \in EventNames
    /\ lastOp.event \notin DOMAIN events
    /\ nextId = 4
    /\ wildcardListeners = <<>>
    /\ \E e2 \in DOMAIN events : DOMAIN events = {e2} /\ Ids(events[e2]) = {2}

=============================================================================
